---- MODULE Spec2Model ----
(***************************************************************************)
(* Model of the SSH command compliance plugin (main.go): the two provider  *)
(* operations Evaluate (identity discovery) and Execute (check run), and   *)
(* the remote executor RunCommand with its connection and session.         *)
(***************************************************************************)
EXTENDS Integers, Sequences, FiniteSets, TLC

\* ------------------------------------------------------------------ bounds
MaxTicks == 3          \* clock advances explored in one behaviour
MaxInvocations == 2    \* Execute invocations explored in one behaviour
TicksPerSec == 2       \* sub-second clock resolution of the model

\* ------------------------------------------------------------------- time
\* An instant is a count of clock ticks since the start of year 0; the
\* calendar is the civil calendar of a common year.
SecsPerDay == 24 * 60 * 60
DaysPerYear == 365
MonthDays == <<31, 28, 31, 30, 31, 30, 31, 31, 30, 31, 30, 31>>

RECURSIVE DaysBefore(_)
DaysBefore(m) == IF m <= 1 THEN 0 ELSE DaysBefore(m - 1) + MonthDays[m - 1]

\* instant of (year y, month m in 1..12, zero-based day of month d,
\* second of day s, sub-second tick u); d may run past the month's end and
\* then falls into the following month, as time.Date normalises it
Instant(y, m, d, s, u) ==
    (((y * DaysPerYear + DaysBefore(m) + d) * SecsPerDay) + s) * TicksPerSec + u

YearOf(t) == ((t \div TicksPerSec) \div SecsPerDay) \div DaysPerYear
YearDayOf(t) == ((t \div TicksPerSec) \div SecsPerDay) % DaysPerYear
MonthOf(t) ==
    CHOOSE m \in 1..12 :
        /\ DaysBefore(m) <= YearDayOf(t)
        /\ YearDayOf(t) < DaysBefore(m) + MonthDays[m]
DayOf(t) == YearDayOf(t) - DaysBefore(MonthOf(t))
SecOfDayOf(t) == (t \div TicksPerSec) % SecsPerDay
SubOf(t) == t % TicksPerSec

\* time.Time.AddDate(0, 1, 0): same day number in the next month, the
\* overflow normalised into the month after
AddDate(t) ==
    LET m == MonthOf(t)
        y2 == IF m = 12 THEN YearOf(t) + 1 ELSE YearOf(t)
        m2 == IF m = 12 THEN 1 ELSE m + 1
    IN  Instant(y2, m2, DayOf(t), SecOfDayOf(t), SubOf(t))

\* time.Time.Format(time.RFC3339): the text has second resolution, so the
\* formatted value is the whole-second count (the zone is fixed)
Format(t) == t \div TicksPerSec

\* the instant a formatted timestamp denotes
Parse(s) == s * TicksPerSec

\* instants the clock may show when the plugin starts
StartInstants ==
    { Instant(0, 1, 30, SecsPerDay - 1, TicksPerSec - 1),
      Instant(0, 3, 14, 12 * 60 * 60, 0),
      Instant(0, 12, 30, SecsPerDay - 1, 0) }

\* ---------------------------------------------------------- configuration
None == "none"

Usernames == {"", "svc"}
Hosts == {"", "h"}
Commands == {"", "cmd"}
Ports == {"", "2222"}

\* SSHConfig
SSHConfig == [Username : Usernames, Password : {"pw"}, Host : Hosts,
              Command : Commands, Port : Ports]

ZeroConfig == [Username |-> "", Password |-> "", Host |-> "", Command |-> "",
               Port |-> ""]

\* the text stored under the "yaml" key: the empty text, a text that is not
\* a YAML mapping of the expected shape, or a document carrying the fields
YamlTexts ==
    {[kind |-> "empty"], [kind |-> "malformed"]}
    \cup {[kind |-> "doc", fields |-> c] : c \in SSHConfig}

\* input.Configuration: the "yaml" key is absent, or present with a text
Configurations ==
    {[present |-> FALSE]} \cup {[present |-> TRUE, text |-> y] : y \in YamlTexts}

\* yamlString, ok := input.Configuration["yaml"]  (zero value when absent)
Lookup(conf) ==
    IF conf.present THEN [yamlString |-> conf.text, ok |-> TRUE]
    ELSE [yamlString |-> [kind |-> "empty"], ok |-> FALSE]

ErrMissing == "yaml parameter is missing"
ErrUnmarshal == "Error unmarshalling YAML"
ErrDial == "failed to dial"
ErrSession == "failed to create session"
ErrExecute == "failed to execute command"

\* yaml.Unmarshal([]byte(yamlString), &ssh_config): an empty text decodes
\* without error and leaves the zero value
Unmarshal(y) ==
    CASE y.kind = "malformed" -> [err |-> ErrUnmarshal, cfg |-> ZeroConfig]
      [] y.kind = "empty" -> [err |-> None, cfg |-> ZeroConfig]
      [] OTHER -> [err |-> None, cfg |-> y.fields]

\* port := ssh_config.Port; if port == "" { port = "22" }
DefaultPort(p) == IF p = "" THEN "22" ELSE p

\* ------------------------------------------------------------------ state
VARIABLES
    proc,        \* "running", or "aborted" once log.Fatalf ended the process
    pc,          \* position of the Execute invocation in progress
    clock,       \* the wall clock, in ticks
    ticks,       \* clock advances so far
    input,       \* the configuration the host passes to both operations
    invocations, \* Execute invocations started
    uuids,       \* identifiers handed out by uuid.New so far
    evalResult,  \* what Evaluate returned last
    execResult,  \* what Execute returned last
    locals,      \* local variables of Execute
    rc,          \* RunCommand: address dialed, handles, returned triple
    remote       \* what the remote side did in this invocation

vars == <<proc, pc, clock, ticks, input, invocations, uuids, evalResult,
          execResult, locals, rc, remote>>

NoLocals == [start_time |-> 0, resolved_at |-> 0, ssh_config |-> ZeroConfig,
             port |-> "", obs_id |-> 0, ssh_target_command |-> "",
             collected |-> 0, expires |-> 0, observations |-> <<>>,
             findings |-> <<>>]

NoRun == [address |-> None, client |-> None, session |-> None,
          output |-> "", exit_code |-> 0, err |-> None, returned |-> FALSE]

NoRemote == [kind |-> None, status |-> 0, output |-> ""]

\* nothing returned yet
NoEvaluateResult == [returned |-> FALSE, err |-> None, subjects |-> <<>>]
NoExecuteResult == [returned |-> FALSE, err |-> None, status |-> None,
                    observations |-> <<>>, findings |-> <<>>, logs |-> <<>>]

Init ==
    /\ proc = "running"
    /\ pc = "idle"
    /\ clock \in StartInstants
    /\ ticks = 0
    /\ input \in Configurations
    /\ invocations = 0
    /\ uuids = 0
    /\ evalResult = NoEvaluateResult
    /\ execResult = NoExecuteResult
    /\ locals = NoLocals
    /\ rc = NoRun
    /\ remote = NoRemote

\* the clock advances between any two steps of the program
Tick ==
    /\ proc = "running"
    /\ ticks < MaxTicks
    /\ clock' = clock + 1
    /\ ticks' = ticks + 1
    /\ UNCHANGED <<proc, pc, input, invocations, uuids, evalResult,
                   execResult, locals, rc, remote>>

\* --------------------------------------------------------------- Evaluate
\* Evaluate's resolution with the test of the ok flag left out
EvaluateResolveNoFlag(conf) ==
    LET l == Lookup(conf)
        u == Unmarshal(l.yamlString)
    IN  IF u.err # None THEN [err |-> ErrUnmarshal, cfg |-> ZeroConfig]
        ELSE [err |-> None, cfg |-> u.cfg]

\* configuration resolution of Evaluate: decode first, then the ok flag
EvaluateResolve(conf) ==
    LET l == Lookup(conf)
        u == Unmarshal(l.yamlString)
    IN  IF u.err # None THEN [err |-> ErrUnmarshal, cfg |-> ZeroConfig]
        ELSE IF ~l.ok THEN [err |-> ErrMissing, cfg |-> ZeroConfig]
        ELSE [err |-> None, cfg |-> u.cfg]

\* fmt.Sprintf("%s@%s:%s %s", username, host, port, command)
SubjectId(c, port) == c.Username \o "@" \o c.Host \o ":" \o port \o " " \o c.Command

EvaluateOf(conf) ==
    LET r == EvaluateResolve(conf)
    IN  IF r.err # None
        THEN [returned |-> TRUE, err |-> r.err, subjects |-> <<>>]
        ELSE LET id == SubjectId(r.cfg, DefaultPort(r.cfg.Port))
             IN  [returned |-> TRUE, err |-> None,
                  subjects |-> <<[Id |-> id, Type |-> "INVENTORY_ITEM",
                                  Title |-> "SSH target ssh " \o id,
                                  Props |-> [id |-> id]]>>]

Evaluate ==
    /\ proc = "running"
    /\ pc = "idle"
    /\ evalResult' = EvaluateOf(input)
    /\ UNCHANGED <<proc, pc, clock, ticks, input, invocations, uuids,
                   execResult, locals, rc, remote>>

\* ---------------------------------------------------------------- Execute
\* configuration resolution of Execute: the ok flag first, then decode
ExecuteResolve(conf) ==
    LET l == Lookup(conf)
        u == Unmarshal(l.yamlString)
    IN  IF ~l.ok THEN [err |-> ErrMissing, cfg |-> ZeroConfig]
        ELSE IF u.err # None THEN [err |-> ErrUnmarshal, cfg |-> ZeroConfig]
        ELSE [err |-> None, cfg |-> u.cfg]

\* fmt.Sprintf("ssh -p %s %s@%s %s", port, username, host, command)
TargetCommand(c, port) ==
    "ssh -p " \o port \o " " \o c.Username \o "@" \o c.Host \o " " \o c.Command

\* start_time := time.Now().Format(time.RFC3339)
ExecuteBegin ==
    /\ proc = "running"
    /\ pc = "idle"
    /\ invocations < MaxInvocations
    /\ invocations' = invocations + 1
    /\ locals' = [NoLocals EXCEPT !.start_time = Format(clock)]
    /\ rc' = NoRun
    /\ remote' = NoRemote
    /\ execResult' = NoExecuteResult
    /\ pc' = "resolve"
    /\ UNCHANGED <<proc, clock, ticks, input, uuids, evalResult>>

\* lines 72-97: look the blob up, decode it, default the port, draw the
\* observation id and format the command line
ExecuteConfigure ==
    /\ proc = "running"
    /\ pc = "resolve"
    /\ LET r == ExecuteResolve(input)
       IN  IF r.err # None
           THEN /\ execResult' = [returned |-> TRUE, err |-> r.err,
                                  status |-> None,
                                  observations |-> <<>>, findings |-> <<>>,
                                  logs |-> <<>>]
                /\ pc' = "idle"
                /\ UNCHANGED <<locals, uuids>>
           ELSE /\ locals' = [locals EXCEPT
                                !.resolved_at = Format(clock),
                                !.ssh_config = r.cfg,
                                !.port = DefaultPort(r.cfg.Port),
                                !.obs_id = uuids + 1,
                                !.ssh_target_command =
                                    TargetCommand(r.cfg, DefaultPort(r.cfg.Port))]
                /\ uuids' = uuids + 1
                /\ pc' = "dial"
                /\ UNCHANGED execResult
    /\ UNCHANGED <<proc, clock, ticks, input, invocations, evalResult, rc,
                   remote>>

\* ------------------------------------------------------------- RunCommand
ExitStatuses == {1, 3}
Outputs == {"", "denied"}

\* what session.CombinedOutput can come back with: nil (the remote process
\* exited with status 0), an *ssh.ExitError carrying a non-zero status, or
\* any other error (the request could not be sent, the exit status is
\* missing, the connection dropped)
RemoteOutcomes ==
    {[kind |-> "exit0", status |-> 0, output |-> o] : o \in Outputs}
    \cup {[kind |-> "exit_error", status |-> s, output |-> o] :
            s \in ExitStatuses, o \in Outputs}
    \cup {[kind |-> "dispatch_failed", status |-> 0, output |-> ""]}

\* address := fmt.Sprintf("%s:%s", config.Host, config.Port)
Address(config) == config.Host \o ":" \o config.Port

\* the deferred calls with defer client.Close() left out
ReleaseSessionOnly(r) ==
    [r EXCEPT !.session = IF @ = "open" THEN "closed" ELSE @]

\* the deferred session.Close() and client.Close() run when RunCommand
\* returns, each for a handle that was opened
Release(r) ==
    [r EXCEPT !.session = IF @ = "open" THEN "closed" ELSE @,
              !.client = IF @ = "open" THEN "closed" ELSE @]

\* lines 205-217 with the early return of the else branch left out: an
\* error that is no ExitError falls through with exit_code still -1
CommandResultFallThrough(o) ==
    CASE o.kind = "exit0" -> [output |-> o.output, exit_code |-> 0, err |-> None]
      [] o.kind = "exit_error" ->
            [output |-> o.output, exit_code |-> o.status, err |-> None]
      [] OTHER -> [output |-> o.output, exit_code |-> -1, err |-> None]

\* lines 205-217: the triple RunCommand returns for an outcome of
\* session.CombinedOutput
CommandResult(o) ==
    CASE o.kind = "exit0" -> [output |-> o.output, exit_code |-> 0, err |-> None]
      [] o.kind = "exit_error" ->
            [output |-> o.output, exit_code |-> o.status, err |-> None]
      [] OTHER -> [output |-> "", exit_code |-> -1, err |-> ErrExecute]

\* ssh.Dial("tcp", address, sshConfig): connect, handshake, authenticate
Dial ==
    /\ proc = "running"
    /\ pc = "dial"
    /\ \E ok \in BOOLEAN :
         IF ok
         THEN /\ rc' = [rc EXCEPT !.address = Address(locals.ssh_config),
                                  !.client = "open"]
              /\ pc' = "session"
              /\ UNCHANGED remote
         ELSE /\ rc' = [rc EXCEPT !.address = Address(locals.ssh_config),
                                  !.output = "", !.exit_code = -1,
                                  !.err = ErrDial, !.returned = TRUE]
              /\ remote' = [remote EXCEPT !.kind = "dial_failed"]
              /\ pc' = "handle"
    /\ UNCHANGED <<proc, clock, ticks, input, invocations, uuids, evalResult,
                   execResult, locals>>

\* client.NewSession()
NewSession ==
    /\ proc = "running"
    /\ pc = "session"
    /\ \E ok \in BOOLEAN :
         IF ok
         THEN /\ rc' = [rc EXCEPT !.session = "open"]
              /\ pc' = "run"
              /\ UNCHANGED remote
         ELSE /\ rc' = Release([rc EXCEPT !.output = "", !.exit_code = -1,
                                          !.err = ErrSession,
                                          !.returned = TRUE])
              /\ remote' = [remote EXCEPT !.kind = "session_failed"]
              /\ pc' = "handle"
    /\ UNCHANGED <<proc, clock, ticks, input, invocations, uuids, evalResult,
                   execResult, locals>>

\* session.CombinedOutput(config.Command) and the return of RunCommand
CombinedOutput ==
    /\ proc = "running"
    /\ pc = "run"
    /\ \E o \in RemoteOutcomes :
         /\ remote' = o
         /\ rc' = Release([rc EXCEPT !.output = CommandResult(o).output,
                                     !.exit_code = CommandResult(o).exit_code,
                                     !.err = CommandResult(o).err,
                                     !.returned = TRUE])
    /\ pc' = "handle"
    /\ UNCHANGED <<proc, clock, ticks, input, invocations, uuids, evalResult,
                   execResult, locals>>

\* lines 100-103: if err != nil { log.Fatalf(...) }, which writes the
\* message and calls os.Exit(1)
HandleRun ==
    /\ proc = "running"
    /\ pc = "handle"
    /\ IF rc.err # None
       THEN /\ proc' = "aborted"
            /\ pc' = "exited"
       ELSE /\ proc' = proc
            /\ pc' = "collect"
    /\ UNCHANGED <<clock, ticks, input, invocations, uuids, evalResult,
                   execResult, locals, rc, remote>>

\* ------------------------------------------------------ evidence generation
\* the test written as exit_code > 1
FailedAboveOne(exit_code) == exit_code > 1

\* if (exit_code != 0)
Failed(exit_code) == exit_code # 0

Evidence(exit_code, cmd) ==
    <<[Description |-> "The command returned an exit code of "
                       \o ToString(exit_code) \o " for the command: " \o cmd]>>

\* lines 107-126 and 138-157
NewObservation(exit_code, id, cmd, collected, expires) ==
    IF Failed(exit_code)
    THEN [Id |-> id, Title |-> "SSH Command Did Not Succeed",
          Description |-> "The command: " \o cmd \o " did not succeed.",
          Collected |-> collected, Expires |-> expires,
          Props |-> <<[Name |-> "Command", Value |-> cmd]>>,
          RelevantEvidence |-> Evidence(exit_code, cmd),
          Remarks |-> "The command: '" \o cmd
                      \o "' should return a zero exit code."]
    ELSE [Id |-> id, Title |-> "SSH Command Succeeded",
          Description |-> "The command: " \o cmd \o " succeeded.",
          Collected |-> collected, Expires |-> expires,
          Props |-> <<[Name |-> "Command", Value |-> cmd]>>,
          RelevantEvidence |-> Evidence(exit_code, cmd),
          Remarks |-> "All OK."]

\* the Finding linked to its own id instead of the Observation's
NewFindingSelfLinked(id, obs_id, cmd, output) ==
    [Id |-> id, Title |-> "SSH Command Failure",
     Description |-> "The command " \o cmd
                     \o " did not succeed, and produced output: "
                     \o output \o ".",
     Remarks |-> "Correct the command " \o cmd \o ".",
     RelatedObservations |-> <<id>>]

\* lines 127-133
NewFinding(id, obs_id, cmd, output) ==
    [Id |-> id, Title |-> "SSH Command Failure",
     Description |-> "The command " \o cmd
                     \o " did not succeed, and produced output: "
                     \o output \o ".",
     Remarks |-> "Correct the command " \o cmd \o ".",
     RelatedObservations |-> <<obs_id>>]

\* the log entry with Start and End exchanged
NewLogEntrySwapped(start, end) ==
    [Title |-> "SSH Command Check",
     Description |-> "SSH command check has run successfully",
     Start |-> end, End |-> start]

\* lines 162-167
NewLogEntry(start, end) ==
    [Title |-> "SSH Command Check",
     Description |-> "SSH command check has run successfully",
     Start |-> start, End |-> end]

\* Collected: time.Now().Format(time.RFC3339)
Collect ==
    /\ proc = "running"
    /\ pc = "collect"
    /\ locals' = [locals EXCEPT !.collected = Format(clock)]
    /\ pc' = "expires"
    /\ UNCHANGED <<proc, clock, ticks, input, invocations, uuids, evalResult,
                   execResult, rc, remote>>

\* Expires: time.Now().AddDate(0, 1, 0).Format(time.RFC3339); then the
\* Finding on the failure branch, and the appends
Expire ==
    /\ proc = "running"
    /\ pc = "expires"
    /\ LET obs == NewObservation(rc.exit_code, locals.obs_id,
                                 locals.ssh_target_command, locals.collected,
                                 Format(AddDate(clock)))
       IN  IF Failed(rc.exit_code)
           THEN /\ locals' = [locals EXCEPT
                                !.expires = Format(AddDate(clock)),
                                !.observations = Append(@, obs),
                                !.findings = Append(@,
                                    NewFinding(uuids + 1, locals.obs_id,
                                               locals.ssh_target_command,
                                               rc.output))]
                /\ uuids' = uuids + 1
           ELSE /\ locals' = [locals EXCEPT
                                !.expires = Format(AddDate(clock)),
                                !.observations = Append(@, obs)]
                /\ uuids' = uuids
    /\ pc' = "log"
    /\ UNCHANGED <<proc, clock, ticks, input, invocations, evalResult,
                   execResult, rc, remote>>

\* lines 162-175: the log entry, End read from the clock, and the return
Return ==
    /\ proc = "running"
    /\ pc = "log"
    /\ execResult' = [returned |-> TRUE, err |-> None,
                      status |-> "SUCCESS",
                      observations |-> locals.observations,
                      findings |-> locals.findings,
                      logs |-> <<NewLogEntry(locals.start_time,
                                             Format(clock))>>]
    /\ pc' = "idle"
    /\ UNCHANGED <<proc, clock, ticks, input, invocations, uuids, evalResult,
                   locals, rc, remote>>

Next ==
    \/ Tick
    \/ Evaluate
    \/ ExecuteBegin
    \/ ExecuteConfigure
    \/ Dial
    \/ NewSession
    \/ CombinedOutput
    \/ HandleRun
    \/ Collect
    \/ Expire
    \/ Return

Spec == Init /\ [][Next]_vars

\* ================================================================= claims
\* the configuration decodes (the key is present and the text well formed)
Decodes == input.present /\ Unmarshal(input.text).err = None
Decoded == Unmarshal(input.text).cfg

\* Execute has finished configuration resolution in the current invocation
Resolved == invocations > 0 /\ pc # "resolve"
\* ... and it failed there
ResolveFailed == Resolved /\ pc = "idle" /\ execResult.err # None
\* Execute has returned a result (not an error) for the current invocation
ResultReturned == pc = "idle" /\ execResult.returned /\ execResult.err = None
\* the invocation is over: Execute returned, or the process was ended
Ended == pc \in {"idle", "exited"}

ExecutionErrorKinds == {"dial_failed", "session_failed", "dispatch_failed"}

Range(q) == {q[i] : i \in 1..Len(q)}

\* C1: on an ExecutionError of the remote executor, Execute returns an error
\* to the caller with no Observations and no Findings, and the process is
\* never ended by the invocation.
C1_ExecutionErrorReturned ==
    /\ proc # "aborted"
    /\ (remote.kind \in ExecutionErrorKinds /\ pc \notin {"dial", "session", "run", "handle"})
         => /\ execResult.returned
            /\ execResult.err # None
            /\ execResult.observations = <<>>
            /\ execResult.findings = <<>>

\* C2: a configuration in which username, host or command is empty after
\* decoding makes Evaluate fail without a Subject and makes Execute fail
\* during resolution, before any connection is attempted.
MissingField ==
    \/ ~Decodes
    \/ Decoded.Username = "" \/ Decoded.Host = "" \/ Decoded.Command = ""

C2_MissingFieldIsConfigError ==
    MissingField =>
        /\ evalResult.returned
             => evalResult.err # None /\ evalResult.subjects = <<>>
        /\ Resolved => ResolveFailed
        /\ rc.address = None

\* C3: with no port configured the effective port is "22" in the Subject
\* id, in the command string of the evidence and in the address dialed.
NoPort == Decodes /\ Decoded.Port = ""

C3_DefaultPortEverywhere ==
    NoPort =>
        /\ (evalResult.returned /\ evalResult.err = None)
             => evalResult.subjects[1].Id = SubjectId(Decoded, "22")
        /\ (Resolved /\ ~ResolveFailed)
             => locals.ssh_target_command = TargetCommand(Decoded, "22")
        /\ rc.address # None => rc.address = Decoded.Host \o ":" \o "22"

\* C4: a remote execution that ends with a non-zero exit code gives status
\* SUCCESS, exactly one Observation "SSH Command Did Not Succeed" and exactly
\* one Finding "SSH Command Failure" whose related observations are non-empty,
\* contain that Observation's id and contain nothing else.
C4_FailureEvidence ==
    (ResultReturned /\ remote.kind = "exit_error") =>
        /\ execResult.status = "SUCCESS"
        /\ Len(execResult.observations) = 1
        /\ execResult.observations[1].Title = "SSH Command Did Not Succeed"
        /\ Len(execResult.findings) = 1
        /\ execResult.findings[1].Title = "SSH Command Failure"
        /\ execResult.findings[1].RelatedObservations # <<>>
        /\ execResult.observations[1].Id
             \in Range(execResult.findings[1].RelatedObservations)
        /\ Range(execResult.findings[1].RelatedObservations)
             \subseteq {execResult.observations[i].Id :
                          i \in 1..Len(execResult.observations)}

C4_Witness ==
    /\ ResultReturned
    /\ remote.kind = "exit_error"
    /\ remote.status = 3
    /\ invocations = 2
    /\ Len(execResult.findings) = 1

\* C5: a remote execution that ends with exit code 0 gives status SUCCESS,
\* exactly one Observation "SSH Command Succeeded" and no Finding; a result
\* carries a Finding exactly when the exit code is not 0.
C5_SuccessEvidence ==
    ResultReturned =>
        /\ remote.kind = "exit0" =>
             /\ execResult.status = "SUCCESS"
             /\ Len(execResult.observations) = 1
             /\ execResult.observations[1].Title = "SSH Command Succeeded"
             /\ execResult.findings = <<>>
        /\ execResult.findings # <<>> <=> remote.status # 0

C5_Witness ==
    /\ ResultReturned
    /\ remote.kind = "exit0"
    /\ Len(execResult.observations) = 1
    /\ execResult.findings = <<>>

\* C6: once an Execute invocation has ended, on any path, no connection and
\* no session opened during it is still open.
C6_HandlesReleased ==
    Ended => rc.client # "open" /\ rc.session # "open"

C6_Witness ==
    /\ pc = "exited"
    /\ remote.kind = "session_failed"
    /\ rc.client = "closed"
    /\ rc.session = None

\* C7: RunCommand returns a non-zero remote exit status as that status with
\* the captured output and no error; a dial, session or dispatch failure is
\* returned as an error with no usable exit code, is never classified and
\* never yields an Observation or a Finding.
C7_FailureKindsSeparated ==
    rc.returned =>
        /\ remote.kind = "exit_error" =>
             /\ rc.err = None
             /\ rc.exit_code = remote.status
             /\ rc.exit_code # 0
             /\ rc.output = remote.output
        /\ remote.kind \in ExecutionErrorKinds =>
             /\ rc.err # None
             /\ rc.exit_code < 0
             /\ pc \in {"handle", "exited"}
             /\ locals.observations = <<>>
             /\ locals.findings = <<>>
             /\ execResult.status = None
             /\ execResult.observations = <<>>
             /\ execResult.findings = <<>>

C7_Witness ==
    /\ rc.returned
    /\ remote.kind = "dispatch_failed"
    /\ rc.err = ErrExecute
    /\ pc = "exited"

\* C8: every Observation Execute returns expires exactly one month after
\* its collected timestamp, however the clock advances during the invocation.
C8_ExpiresOneMonthAfterCollected ==
    ResultReturned =>
        \A i \in 1..Len(execResult.observations) :
            execResult.observations[i].Expires
              = Format(AddDate(Parse(execResult.observations[i].Collected)))

\* C9: an Execute invocation that returns a result returns exactly one
\* LogEntry, whose start was read before configuration resolution and whose
\* end was read after the evidence was built: start <= collected <= end.
C9_OneLogEntrySpanning ==
    ResultReturned =>
        /\ Len(execResult.logs) = 1
        /\ execResult.logs[1].Start = locals.start_time
        /\ execResult.logs[1].Start <= locals.resolved_at
        /\ \A i \in 1..Len(execResult.observations) :
             /\ execResult.logs[1].Start <= execResult.observations[i].Collected
             /\ execResult.observations[i].Collected <= execResult.logs[1].End

C9_Witness ==
    /\ ResultReturned
    /\ Len(execResult.logs) = 1
    /\ execResult.logs[1].Start < execResult.observations[1].Collected
    /\ execResult.observations[1].Collected < execResult.logs[1].End

\* C10: Evaluate and Execute agree on configuration resolution: one fails
\* exactly when the other does, with the same error (the missing-parameter
\* error for an absent key, the decode error for a malformed text), and no
\* connection is attempted when they fail.
C10_ResolutionAgrees ==
    (evalResult.returned /\ Resolved) =>
        /\ evalResult.err # None <=> ResolveFailed
        /\ ResolveFailed =>
             /\ evalResult.err = execResult.err
             /\ rc.address = None
        /\ ~input.present =>
             evalResult.err = ErrMissing /\ execResult.err = ErrMissing
        /\ (input.present /\ input.text.kind = "malformed") =>
             evalResult.err = ErrUnmarshal /\ execResult.err = ErrUnmarshal

C10_Witness ==
    /\ ~input.present
    /\ evalResult.returned
    /\ Resolved
    /\ evalResult.err = ErrMissing
    /\ execResult.err = ErrMissing
====
